---- MODULE Spec2Model ----
(***************************************************************************)
(* Model of the 1&1 CloudServer docker-machine driver (package oneandone). *)
(* The driver record d, the provider's firewall policies and servers, and  *)
(* the position of the running operation are the state; every remote call *)
(* the driver issues is appended to log, the recorder of a mock client.    *)
(* Identifiers are numbers: 0 stands for the empty string "".              *)
(***************************************************************************)
EXTENDS Integers, Sequences, FiniteSets, TLC

\* ---- bounds of the model
MaxIds == 2
MaxPolls == 2

\* ---- sizing limits of the driver
minCores == 1
maxCores == 16
minRam == 1
maxRam == 128
minSsd == 20
maxSsd == 500
stepSsd == 20

VARIABLES d, fws, vms, host, pc, loc, ret, log

vars == <<d, fws, vms, host, pc, loc, ret, log>>

Ids == 1..MaxIds

\* address lists a provider may assign to a server
IpLists == {<<>>, <<"ipA">>, <<"ipB", "ipA">>}

\* the record built by NewDriver: every identifier and sizing field is zero
NewDriver ==
    [Endpoint |-> "", AccessToken |-> "", VmId |-> 0, FirewallId |-> 0,
     IPAddress |-> "", Cores |-> 0, Ram |-> 0, Ssd |-> 0]

\* the record after a successful SetConfigFromFlags with every sizing flag unset
Configured ==
    [NewDriver EXCEPT !.Endpoint = "ep", !.AccessToken = "tok",
                      !.Cores = minCores, !.Ram = minRam, !.Ssd = minSsd]

\* the locals of the running operation: its handles (0 is nil), the address list
\* of the re-fetched server, the step that failed and its error, the status
\* GetState fetched, and the function the host called
NoLocals ==
    [firewall |-> 0, server |-> 0, ips |-> <<>>, failed |-> "none", err |-> "nil",
     status |-> "n/a", caller |-> "none"]

NoResult == [op |-> "none", err |-> "nil", state |-> "n/a"]

Result(op, err) == [op |-> op, err |-> err, state |-> "n/a"]

\* an entry of the call log: the function that issued the call, the call, whether
\* it succeeded (for a status poll: whether it read the awaited status), the
\* identifier it returned or was issued on, and its argument
Entry(by, call, ok, id) == [by |-> by, call |-> call, ok |-> ok, id |-> id, arg |-> ""]

EntryArg(by, call, ok, id, arg) == [by |-> by, call |-> call, ok |-> ok, id |-> id, arg |-> arg]

\* positions of the calls c in the call log
At(c) == {i \in DOMAIN log : log[i].call = c}

\* number of calls c in the call log, and of those that succeeded
Calls(c) == Cardinality(At(c))

OkCalls(c) == Cardinality({i \in At(c) : log[i].ok})

\* ---- the provider's view of a stored identifier
FirewallExists(id) == id \in Ids /\ fws[id] \in {"CONFIGURING", "ACTIVE", "REMOVING"}

ServerExists(id) == id \in Ids /\ vms[id].state \notin {"NONE", "DELETED"}

FreeFirewallIds == {i \in Ids : fws[i] = "NONE"}

FreeServerIds == {i \in Ids : vms[i].state = "NONE"}

NoServer == [state |-> "NONE", ips |-> <<>>, fw |-> 0, cores |-> 0, ram |-> 0, ssd |-> 0]

NewId(free) == CHOOSE i \in free : \A j \in free : i <= j

Init ==
    /\ d = Configured
    /\ fws = [i \in Ids |-> "NONE"]
    /\ vms = [i \in Ids |-> NoServer]
    /\ host = [portOpen |-> FALSE, aptBusy |-> TRUE]
    /\ pc = "idle"
    /\ loc = NoLocals
    /\ ret = NoResult
    /\ log = <<>>

\* ---- Create: resolve the base image
CreateFindAppliance ==
    /\ pc = "idle"
    /\ loc' = [NoLocals EXCEPT !.caller = "Create"]
    /\ \E ok \in BOOLEAN :
         /\ log' = <<Entry("Create", "ServerApplianceFindNewest", ok, 0)>>
         /\ IF ok
            THEN pc' = "create_firewall" /\ ret' = NoResult
            ELSE pc' = "idle" /\ ret' = Result("Create", "ImageErr")
    /\ UNCHANGED <<d, fws, vms, host>>

CreateFirewallPolicy_NotStored ==
    /\ pc = "create_firewall"
    /\ \/ /\ FreeFirewallIds # {}
          /\ LET id == NewId(FreeFirewallIds) IN
               /\ log' = Append(log, Entry("Create", "CreateFirewallPolicy", TRUE, id))
               /\ fws' = [fws EXCEPT ![id] = "CONFIGURING"]
               /\ loc' = [loc EXCEPT !.firewall = id]
               /\ d' = d
          /\ pc' = "create_server"
          /\ ret' = ret
       \/ /\ log' = Append(log, Entry("Create", "CreateFirewallPolicy", FALSE, 0))
          /\ pc' = "idle"
          /\ ret' = Result("Create", "FirewallErr")
          /\ UNCHANGED <<d, fws, loc>>
    /\ UNCHANGED <<vms, host>>

\* ---- Create: create the firewall policy and store its identifier in the record
CreateFirewallPolicy ==
    /\ pc = "create_firewall"
    /\ \/ /\ FreeFirewallIds # {}
          /\ LET id == NewId(FreeFirewallIds) IN
               /\ log' = Append(log, Entry("Create", "CreateFirewallPolicy", TRUE, id))
               /\ fws' = [fws EXCEPT ![id] = "CONFIGURING"]
               /\ loc' = [loc EXCEPT !.firewall = id]
               /\ d' = [d EXCEPT !.FirewallId = id]
          /\ pc' = "create_server"
          /\ ret' = ret
       \/ /\ log' = Append(log, Entry("Create", "CreateFirewallPolicy", FALSE, 0))
          /\ pc' = "idle"
          /\ ret' = Result("Create", "FirewallErr")
          /\ UNCHANGED <<d, fws, loc>>
    /\ UNCHANGED <<vms, host>>

NewServer_NoFirewall(ips) ==
    [state |-> "POWERING_ON", ips |-> ips, fw |-> 0,
     cores |-> d.Cores, ram |-> d.Ram, ssd |-> d.Ssd]

\* the server a CreateServer request makes: powering on, with the addresses the
\* provider assigns and the firewall policy and sizing the request carried
NewServer(ips) ==
    [state |-> "POWERING_ON", ips |-> ips, fw |-> d.FirewallId,
     cores |-> d.Cores, ram |-> d.Ram, ssd |-> d.Ssd]

CreateServer_ErrorReplaced ==
    /\ pc = "create_server"
    /\ \/ /\ FreeServerIds # {}
          /\ LET id == NewId(FreeServerIds) IN
               /\ log' = Append(log, Entry("Create", "CreateServer", TRUE, id))
               /\ \E ips \in IpLists : vms' = [vms EXCEPT ![id] = NewServer(ips)]
               /\ d' = [d EXCEPT !.VmId = id]
               /\ loc' = [loc EXCEPT !.server = id]
          /\ host' = [portOpen |-> FALSE, aptBusy |-> TRUE]
          /\ pc' = "create_waitfirewall"
       \/ /\ log' = Append(log, Entry("Create", "CreateServer", FALSE, 0))
          /\ loc' = [loc EXCEPT !.failed = "CreateServer", !.err = "nil"]
          /\ pc' = "remove_firewall"
          /\ UNCHANGED <<d, vms, host>>
    /\ UNCHANGED <<fws, ret>>

\* ---- Create: create the server and store its identifier; on failure run Remove
\*      and then return the error of CreateServer
CreateServer ==
    /\ pc = "create_server"
    /\ \/ /\ FreeServerIds # {}
          /\ LET id == NewId(FreeServerIds) IN
               /\ log' = Append(log, Entry("Create", "CreateServer", TRUE, id))
               /\ \E ips \in IpLists : vms' = [vms EXCEPT ![id] = NewServer(ips)]
               /\ d' = [d EXCEPT !.VmId = id]
               /\ loc' = [loc EXCEPT !.server = id]
          /\ host' = [portOpen |-> FALSE, aptBusy |-> TRUE]
          /\ pc' = "create_waitfirewall"
       \/ /\ log' = Append(log, Entry("Create", "CreateServer", FALSE, 0))
          /\ loc' = [loc EXCEPT !.failed = "CreateServer", !.err = "ServerErr"]
          /\ pc' = "remove_firewall"
          /\ UNCHANGED <<d, vms, host>>
    /\ UNCHANGED <<fws, ret>>

\* ---- Create: firewall.WaitForState("ACTIVE") returns once the policy is ACTIVE
CreateWaitFirewall ==
    /\ pc = "create_waitfirewall"
    /\ fws[loc.firewall] = "ACTIVE"
    /\ log' = Append(log, Entry("Create", "FirewallPolicy.WaitForState", TRUE, loc.firewall))
    /\ pc' = "create_waitserver"
    /\ UNCHANGED <<d, fws, vms, host, loc, ret>>

CreateWaitServer_NoWait ==
    /\ pc = "create_waitserver"
    /\ log' = Append(log, Entry("Create", "Server.WaitForState.poll",
                                vms[loc.server].state = "POWERED_ON", loc.server))
    /\ pc' = "create_getip"
    /\ UNCHANGED <<d, fws, vms, host, loc, ret>>

\* ---- Create: server.WaitForState("POWERED_ON"), one poll of the server's status:
\*      the wait returns on the first poll that reads POWERED_ON
CreateWaitServer ==
    /\ pc = "create_waitserver"
    /\ log' = Append(log, Entry("Create", "Server.WaitForState.poll",
                                vms[loc.server].state = "POWERED_ON", loc.server))
    /\ IF vms[loc.server].state = "POWERED_ON"
       THEN pc' = "create_getip"
       ELSE /\ Calls("Server.WaitForState.poll") < MaxPolls
            /\ pc' = pc
    /\ UNCHANGED <<d, fws, vms, host, loc, ret>>

\* the address Create stores: server.Ips[0].Ip
FirstAddress_Last(ips) == ips[Len(ips)]

FirstAddress(ips) == ips[1]

\* ---- Create: re-fetch the server (the error is dropped) and read
\*      server.Ips[0].Ip; a nil server or an empty address list ends the process
\*      in a run-time panic
CreateGetIp ==
    /\ pc = "create_getip"
    /\ \E ok \in {TRUE, FALSE} :
         /\ ok => ServerExists(d.VmId)
         /\ log' = Append(log, Entry("Create", "GetServer", ok, d.VmId))
         /\ IF ok /\ vms[d.VmId].ips # <<>>
            THEN /\ loc' = [loc EXCEPT !.server = d.VmId, !.ips = vms[d.VmId].ips]
                 /\ d' = [d EXCEPT !.IPAddress = FirstAddress(vms[d.VmId].ips)]
                 /\ pc' = "create_keygen"
                 /\ ret' = ret
            ELSE /\ loc' = [loc EXCEPT !.server = IF ok THEN d.VmId ELSE 0,
                                       !.failed = "GetServer", !.err = "panic"]
                 /\ d' = d
                 /\ pc' = "panicked"
                 /\ ret' = Result("Create", "panic")
    /\ UNCHANGED <<fws, vms, host>>

\* ---- Create: ssh.GenerateSSHKey; its error is returned at once
CreateGenerateSSHKey ==
    /\ pc = "create_keygen"
    /\ \E ok \in BOOLEAN :
         /\ log' = Append(log, Entry("Create", "GenerateSSHKey", ok, 0))
         /\ IF ok
            THEN pc' = "ready_port" /\ ret' = ret /\ loc' = loc
            ELSE /\ pc' = "idle"
                 /\ loc' = [loc EXCEPT !.failed = "GenerateSSHKey", !.err = "KeyGenErr"]
                 /\ ret' = Result("Create", "KeyGenErr")
    /\ UNCHANGED <<d, fws, vms, host>>

\* ---- WaitForServerReady: WaitForTcpPortToBeOpen returns after the first dial
\*      that succeeds
WaitForTcpPortToBeOpen ==
    /\ pc = "ready_port"
    /\ host.portOpen
    /\ log' = Append(log, Entry("WaitForServerReady", "DialTimeout", TRUE, 0))
    /\ pc' = "ready_client"
    /\ UNCHANGED <<d, fws, vms, host, loc, ret>>

\* ---- WaitForServerReady: getSSHClient; on failure the function returns an
\*      error, which Create drops
ReadyGetSSHClient ==
    /\ pc = "ready_client"
    /\ \E ok \in BOOLEAN :
         /\ log' = Append(log, Entry("WaitForServerReady", "getSSHClient", ok, 0))
         /\ pc' = IF ok THEN "ready_apt" ELSE "create_install"
    /\ UNCHANGED <<d, fws, vms, host, loc, ret>>

ReadyAptCheck_ReturnsOnFailure ==
    /\ pc = "ready_apt"
    /\ \E result \in (IF host.aptBusy THEN {"1", ""} ELSE {"0", ""}) :
         /\ log' = Append(log, EntryArg("WaitForServerReady", "executeCmd",
                                        result # "", 0, result))
         /\ IF result \in {"0", ""}
            THEN pc' = "create_install"
            ELSE /\ Calls("executeCmd") < MaxPolls
                 /\ pc' = pc
    /\ UNCHANGED <<d, fws, vms, host, loc, ret>>

\* ---- WaitForServerReady: the process check is repeated until its output
\*      contains "0"; a failed command yields the empty output
ReadyAptCheck ==
    /\ pc = "ready_apt"
    /\ \E result \in (IF host.aptBusy THEN {"1", ""} ELSE {"0", ""}) :
         /\ log' = Append(log, EntryArg("WaitForServerReady", "executeCmd",
                                        result # "", 0, result))
         /\ IF result = "0"
            THEN pc' = "create_install"
            ELSE /\ Calls("executeCmd") < MaxPolls
                 /\ pc' = pc
    /\ UNCHANGED <<d, fws, vms, host, loc, ret>>

InstallErrors == {"ReadKeyErr", "SSHClientErr", "InstallCmdErr"}

CreateInstallSshKey_NoCleanup ==
    /\ pc = "create_install"
    /\ \E err \in InstallErrors \cup {"nil"} :
         /\ log' = Append(log, Entry("installSshKey", "installSshKey", err = "nil", 0))
         /\ pc' = "idle"
         /\ ret' = Result("Create", err)
         /\ loc' = IF err = "nil"
                   THEN loc
                   ELSE [loc EXCEPT !.failed = "installSshKey", !.err = err]
    /\ UNCHANGED <<d, fws, vms, host>>

\* ---- Create: installSshKey; on failure run Remove and then return the error
CreateInstallSshKey ==
    /\ pc = "create_install"
    /\ \E err \in InstallErrors \cup {"nil"} :
         /\ log' = Append(log, Entry("installSshKey", "installSshKey", err = "nil", 0))
         /\ IF err = "nil"
            THEN pc' = "idle" /\ ret' = Result("Create", "nil") /\ loc' = loc
            ELSE /\ pc' = "remove_firewall"
                 /\ loc' = [loc EXCEPT !.failed = "installSshKey", !.err = err]
                 /\ ret' = ret
    /\ UNCHANGED <<d, fws, vms, host>>

\* ---- Remove, called by the host
RemoveCall ==
    /\ pc = "idle"
    /\ pc' = "remove_firewall"
    /\ log' = <<>>
    /\ loc' = [NoLocals EXCEPT !.caller = "Remove"]
    /\ ret' = NoResult
    /\ UNCHANGED <<d, fws, vms, host>>

RemoveFirewall_DeleteAlways ==
    /\ pc = "remove_firewall"
    /\ \E found \in BOOLEAN, deleted \in BOOLEAN :
         /\ found => FirewallExists(d.FirewallId)
         /\ deleted => FirewallExists(d.FirewallId)
         /\ log' = log \o <<Entry("Remove", "GetFirewallPolicy", found, d.FirewallId),
                            Entry("Remove", "FirewallPolicy.Delete", deleted, d.FirewallId)>>
         /\ fws' = IF deleted THEN [fws EXCEPT ![d.FirewallId] = "REMOVING"] ELSE fws
         /\ loc' = [loc EXCEPT !.firewall = IF deleted THEN d.FirewallId ELSE 0]
    /\ pc' = "remove_server"
    /\ UNCHANGED <<d, vms, host, ret>>

RemoveFirewall_AfterServer ==
    /\ pc = "remove_firewall"
    /\ \E so \in {"notfound", "deletefailed", "deleted"},
          fo \in {"notfound", "deletefailed", "deleted"} :
         /\ so # "notfound" => ServerExists(d.VmId)
         /\ fo # "notfound" => FirewallExists(d.FirewallId)
         /\ log' = log
                   \o (IF so = "notfound"
                       THEN <<Entry("Remove", "GetServer", FALSE, d.VmId)>>
                       ELSE <<Entry("Remove", "GetServer", TRUE, d.VmId),
                              Entry("Remove", "Server.Delete", so = "deleted", d.VmId)>>)
                   \o (IF fo = "notfound"
                       THEN <<Entry("Remove", "GetFirewallPolicy", FALSE, d.FirewallId)>>
                       ELSE <<Entry("Remove", "GetFirewallPolicy", TRUE, d.FirewallId),
                              Entry("Remove", "FirewallPolicy.Delete",
                                    fo = "deleted", d.FirewallId)>>)
         /\ vms' = IF so = "deleted" THEN [vms EXCEPT ![d.VmId].state = "REMOVING"] ELSE vms
         /\ fws' = IF fo = "deleted" THEN [fws EXCEPT ![d.FirewallId] = "REMOVING"] ELSE fws
         /\ loc' = [loc EXCEPT !.server = IF so = "deleted" THEN d.VmId ELSE 0,
                               !.firewall = IF fo = "deleted" THEN d.FirewallId ELSE 0]
    /\ pc' = "remove_waitfirewall"
    /\ UNCHANGED <<d, host, ret>>

\* ---- Remove: look the firewall policy up by d.FirewallId and delete it; a failed
\*      lookup or a failed delete is logged and leaves the handle nil
RemoveFirewall ==
    /\ pc = "remove_firewall"
    /\ \E outcome \in {"notfound", "deletefailed", "deleted"} :
         /\ outcome # "notfound" => FirewallExists(d.FirewallId)
         /\ log' = IF outcome = "notfound"
                   THEN Append(log, Entry("Remove", "GetFirewallPolicy", FALSE, d.FirewallId))
                   ELSE log \o <<Entry("Remove", "GetFirewallPolicy", TRUE, d.FirewallId),
                                 Entry("Remove", "FirewallPolicy.Delete",
                                       outcome = "deleted", d.FirewallId)>>
         /\ fws' = IF outcome = "deleted"
                   THEN [fws EXCEPT ![d.FirewallId] = "REMOVING"]
                   ELSE fws
         /\ loc' = [loc EXCEPT !.firewall = IF outcome = "deleted" THEN d.FirewallId ELSE 0]
    /\ pc' = "remove_server"
    /\ UNCHANGED <<d, vms, host, ret>>

RemoveServer_OnlyAfterFirewall ==
    /\ pc = "remove_server"
    /\ IF loc.firewall = 0
       THEN UNCHANGED <<log, vms, loc>>
       ELSE \E outcome \in {"notfound", "deletefailed", "deleted"} :
              /\ outcome # "notfound" => ServerExists(d.VmId)
              /\ log' = IF outcome = "notfound"
                        THEN Append(log, Entry("Remove", "GetServer", FALSE, d.VmId))
                        ELSE log \o <<Entry("Remove", "GetServer", TRUE, d.VmId),
                                      Entry("Remove", "Server.Delete",
                                            outcome = "deleted", d.VmId)>>
              /\ vms' = IF outcome = "deleted"
                        THEN [vms EXCEPT ![d.VmId].state = "REMOVING"]
                        ELSE vms
              /\ loc' = [loc EXCEPT !.server = IF outcome = "deleted" THEN d.VmId ELSE 0]
    /\ pc' = "remove_waitfirewall"
    /\ UNCHANGED <<d, fws, host, ret>>

\* ---- Remove: look the server up by d.VmId and delete it, whatever happened to
\*      the firewall policy
RemoveServer ==
    /\ pc = "remove_server"
    /\ \E outcome \in {"notfound", "deletefailed", "deleted"} :
         /\ outcome # "notfound" => ServerExists(d.VmId)
         /\ log' = IF outcome = "notfound"
                   THEN Append(log, Entry("Remove", "GetServer", FALSE, d.VmId))
                   ELSE log \o <<Entry("Remove", "GetServer", TRUE, d.VmId),
                                 Entry("Remove", "Server.Delete", outcome = "deleted", d.VmId)>>
         /\ vms' = IF outcome = "deleted"
                   THEN [vms EXCEPT ![d.VmId].state = "REMOVING"]
                   ELSE vms
         /\ loc' = [loc EXCEPT !.server = IF outcome = "deleted" THEN d.VmId ELSE 0]
    /\ pc' = "remove_waitfirewall"
    /\ UNCHANGED <<d, fws, host, ret>>

\* ---- Remove: firewall.WaitUntilDeleted(), when the delete was accepted
RemoveWaitFirewall ==
    /\ pc = "remove_waitfirewall"
    /\ IF loc.firewall = 0
       THEN log' = log
       ELSE /\ fws[loc.firewall] = "DELETED"
            /\ log' = Append(log, Entry("Remove", "FirewallPolicy.WaitUntilDeleted",
                                        TRUE, loc.firewall))
    /\ pc' = "remove_waitserver"
    /\ UNCHANGED <<d, fws, vms, host, loc, ret>>

RemoveWaitServer_NoWait ==
    /\ pc = "remove_waitserver"
    /\ IF loc.server = 0
       THEN log' = log
       ELSE log' = Append(log, Entry("Remove", "Server.WaitUntilDeleted", TRUE, loc.server))
    /\ pc' = "idle"
    /\ ret' = IF loc.caller = "Create"
              THEN Result("Create", loc.err)
              ELSE Result("Remove", "nil")
    /\ UNCHANGED <<d, fws, vms, host, loc>>

RemoveWaitServer_FailsOnMissing ==
    /\ pc = "remove_waitserver"
    /\ IF loc.server = 0
       THEN log' = log
       ELSE /\ vms[loc.server].state = "DELETED"
            /\ log' = Append(log, Entry("Remove", "Server.WaitUntilDeleted", TRUE, loc.server))
    /\ pc' = "idle"
    /\ ret' = IF loc.caller = "Create"
              THEN Result("Create", loc.err)
              ELSE Result("Remove", IF OkCalls("GetServer") = 0 THEN "NotFoundErr" ELSE "nil")
    /\ UNCHANGED <<d, fws, vms, host, loc>>

\* ---- Remove: server.WaitUntilDeleted(), when the delete was accepted, and
\*      return nil; Create, when it is the caller, then returns its own error
RemoveWaitServer ==
    /\ pc = "remove_waitserver"
    /\ IF loc.server = 0
       THEN log' = log
       ELSE /\ vms[loc.server].state = "DELETED"
            /\ log' = Append(log, Entry("Remove", "Server.WaitUntilDeleted", TRUE, loc.server))
    /\ pc' = "idle"
    /\ ret' = IF loc.caller = "Create"
              THEN Result("Create", loc.err)
              ELSE Result("Remove", "nil")
    /\ UNCHANGED <<d, fws, vms, host, loc>>

\* ---- the provider: a configuring firewall policy becomes ACTIVE
ProviderFirewallActive ==
    \E id \in Ids :
      /\ fws[id] = "CONFIGURING"
      /\ fws' = [fws EXCEPT ![id] = "ACTIVE"]
      /\ UNCHANGED <<d, vms, host, pc, loc, ret, log>>

\* ---- the provider: a server powering on becomes POWERED_ON
ProviderServerPoweredOn ==
    \E id \in Ids :
      /\ vms[id].state = "POWERING_ON"
      /\ vms' = [vms EXCEPT ![id].state = "POWERED_ON"]
      /\ UNCHANGED <<d, fws, host, pc, loc, ret, log>>

\* ---- the provider: a resource whose delete was accepted disappears
ProviderFirewallRemoved ==
    \E id \in Ids :
      /\ fws[id] = "REMOVING"
      /\ fws' = [fws EXCEPT ![id] = "DELETED"]
      /\ UNCHANGED <<d, vms, host, pc, loc, ret, log>>

ProviderServerRemoved ==
    \E id \in Ids :
      /\ vms[id].state = "REMOVING"
      /\ vms' = [vms EXCEPT ![id].state = "DELETED"]
      /\ UNCHANGED <<d, fws, host, pc, loc, ret, log>>

\* ---- the new server's first boot: sshd starts listening, the package manager ends
HostPortOpens ==
    /\ pc \in {"ready_port"}
    /\ ~host.portOpen
    /\ host' = [host EXCEPT !.portOpen = TRUE]
    /\ UNCHANGED <<d, fws, vms, pc, loc, ret, log>>

HostAptIdle ==
    /\ pc \in {"ready_port", "ready_client", "ready_apt"}
    /\ host.aptBusy
    /\ host' = [host EXCEPT !.aptBusy = FALSE]
    /\ UNCHANGED <<d, fws, vms, pc, loc, ret, log>>

\* ---- the provider's status vocabulary, as the driver's switch names it
Statuses ==
    {"POWERING_ON", "REBOOTING", "POWERED_ON", "POWERED_OFF", "POWERING_OFF",
     "REMOVING", "CONFIGURING", "DEPLOYING"}

StateOf_FallThrough(status) ==
    CASE status = "POWERING_ON" -> "Starting"
      [] status \in {"REBOOTING", "POWERED_ON"} -> "Running"
      [] status = "POWERED_OFF" -> "Stopped"
      [] status = "POWERING_OFF" -> "Stopping"
      [] status \in {"REMOVING", "CONFIGURING", "DEPLOYING"} -> "Error"
      [] OTHER -> "None"

StateOf_Swapped(status) ==
    CASE status = "POWERING_ON" -> "Starting"
      [] status = "POWERED_ON" -> "Running"
      [] status = "POWERED_OFF" -> "Stopping"
      [] status = "POWERING_OFF" -> "Stopped"
      [] status = "DEPLOYING" -> "Error"
      [] OTHER -> "None"

\* ---- GetState: the switch over vm.Status.State; a case with an empty body ends
\*      the switch, and the statement after the switch returns None
StateOf(status) ==
    CASE status = "POWERING_ON" -> "Starting"
      [] status = "REBOOTING" -> "None"
      [] status = "POWERED_ON" -> "Running"
      [] status = "POWERED_OFF" -> "Stopped"
      [] status = "POWERING_OFF" -> "Stopping"
      [] status = "REMOVING" -> "None"
      [] status = "CONFIGURING" -> "None"
      [] status = "DEPLOYING" -> "Error"
      [] OTHER -> "None"

GetState_Fabricated ==
    /\ pc = "idle"
    /\ \E ok \in BOOLEAN :
         /\ ok => ServerExists(d.VmId)
         /\ log' = <<Entry("GetState", "GetServer", ok, d.VmId)>>
         /\ loc' = [NoLocals EXCEPT !.caller = "GetState",
                                    !.status = IF ok THEN vms[d.VmId].state ELSE "n/a"]
         /\ ret' = IF ok
                   THEN [op |-> "GetState", err |-> "nil", state |-> StateOf(vms[d.VmId].state)]
                   ELSE [op |-> "GetState", err |-> "GetServerErr", state |-> "Error"]
    /\ UNCHANGED <<d, fws, vms, host, pc>>

\* ---- GetState: fetch the server by d.VmId; a failed fetch returns None and the
\*      error, a fetched server the state its status maps to
GetState ==
    /\ pc = "idle"
    /\ \E ok \in BOOLEAN :
         /\ ok => ServerExists(d.VmId)
         /\ log' = <<Entry("GetState", "GetServer", ok, d.VmId)>>
         /\ loc' = [NoLocals EXCEPT !.caller = "GetState",
                                    !.status = IF ok THEN vms[d.VmId].state ELSE "n/a"]
         /\ ret' = IF ok
                   THEN [op |-> "GetState", err |-> "nil", state |-> StateOf(vms[d.VmId].state)]
                   ELSE [op |-> "GetState", err |-> "GetServerErr", state |-> "None"]
    /\ UNCHANGED <<d, fws, vms, host, pc>>

\* ---- Start, Stop, Restart, Kill: fetch the server by d.VmId, then issue one
\*      state-change request; either failure is returned wrapped
Lifecycle_ForgetsAddress(op, call, arg, next) ==
    /\ pc = "idle"
    /\ \E outcome \in {"notfound", "requestfailed", "ok"} :
         /\ outcome # "notfound" => ServerExists(d.VmId)
         /\ log' = IF outcome = "notfound"
                   THEN <<Entry(op, "GetServer", FALSE, d.VmId)>>
                   ELSE <<Entry(op, "GetServer", TRUE, d.VmId),
                          EntryArg(op, call, outcome = "ok", d.VmId, arg)>>
         /\ vms' = IF outcome = "ok" THEN [vms EXCEPT ![d.VmId].state = next] ELSE vms
         /\ d' = IF outcome = "ok" THEN [d EXCEPT !.IPAddress = ""] ELSE d
         /\ ret' = Result(op, CASE outcome = "notfound" -> "GetServerErr"
                                [] outcome = "requestfailed" -> "RequestErr"
                                [] OTHER -> "nil")
    /\ loc' = [NoLocals EXCEPT !.caller = op]
    /\ UNCHANGED <<fws, host, pc>>

Lifecycle(op, call, arg, next) ==
    /\ pc = "idle"
    /\ \E outcome \in {"notfound", "requestfailed", "ok"} :
         /\ outcome # "notfound" => ServerExists(d.VmId)
         /\ log' = IF outcome = "notfound"
                   THEN <<Entry(op, "GetServer", FALSE, d.VmId)>>
                   ELSE <<Entry(op, "GetServer", TRUE, d.VmId),
                          EntryArg(op, call, outcome = "ok", d.VmId, arg)>>
         /\ vms' = IF outcome = "ok" THEN [vms EXCEPT ![d.VmId].state = next] ELSE vms
         /\ ret' = Result(op, CASE outcome = "notfound" -> "GetServerErr"
                                [] outcome = "requestfailed" -> "RequestErr"
                                [] OTHER -> "nil")
    /\ loc' = [NoLocals EXCEPT !.caller = op]
    /\ UNCHANGED <<d, fws, host, pc>>

Start == Lifecycle("Start", "Server.Start", "", "POWERING_ON")

Stop == Lifecycle("Stop", "Server.Shutdown", "false", "POWERING_OFF")

Restart == Lifecycle("Restart", "Server.Reboot", "false", "REBOOTING")

Kill_Graceful == Lifecycle("Kill", "Server.Shutdown", "false", "POWERING_OFF")

Kill == Lifecycle("Kill", "Server.Shutdown", "true", "POWERING_OFF")

\* ---- the provider: the server named by the record reports another status,
\*      one of the vocabulary or one the driver does not know
ProviderReports ==
    /\ ServerExists(d.VmId)
    /\ \E s \in Statuses \cup {"UNKNOWN_STATUS"} :
         /\ s # vms[d.VmId].state
         /\ vms' = [vms EXCEPT ![d.VmId].state = s]
    /\ UNCHANGED <<d, fws, host, pc, loc, ret, log>>

\* ---- the flags SetConfigFromFlags may be given; flags.Int yields 0 for an
\*      unset flag
Flags ==
    [endpoint : {"", "ep"}, token : {"", "tok"},
     cores : {0 - 1, 0, minCores, maxCores, maxCores + 1},
     ram : {0, maxRam, maxRam + 1},
     ssd : {0, minSsd - 1, minSsd + 1, maxSsd, maxSsd + stepSsd}]

OrDefault_Keep(v, min) == v

OrDefault(v, min) == IF v = 0 THEN min ELSE v

ConfigFromFlags_NoStep(rec, flags) ==
    LET d1 == [rec EXCEPT !.Endpoint = flags.endpoint]
        d2 == [d1 EXCEPT !.AccessToken = flags.token]
        d3 == [d2 EXCEPT !.Cores = OrDefault(flags.cores, minCores)]
        d4 == [d3 EXCEPT !.Ram = OrDefault(flags.ram, minRam)]
        d5 == [d4 EXCEPT !.Ssd = OrDefault(flags.ssd, minSsd)]
    IN  IF d1.Endpoint = "" THEN [d |-> d1, err |-> "EndpointRequired"]
        ELSE IF d2.AccessToken = "" THEN [d |-> d2, err |-> "AccessTokenRequired"]
        ELSE IF d3.Cores < minCores \/ d3.Cores > maxCores
             THEN [d |-> d3, err |-> "CoresRange"]
        ELSE IF d4.Ram < minRam \/ d4.Ram > maxRam
             THEN [d |-> d4, err |-> "RamRange"]
        ELSE IF d5.Ssd < minSsd \/ d5.Ssd > maxSsd
             THEN [d |-> d5, err |-> "SsdRange"]
        ELSE [d |-> d5, err |-> "nil"]

\* ---- SetConfigFromFlags as a function of the record and the flags: each field
\*      is stored, then checked, and the first failing check returns
ConfigFromFlags(rec, flags) ==
    LET d1 == [rec EXCEPT !.Endpoint = flags.endpoint]
        d2 == [d1 EXCEPT !.AccessToken = flags.token]
        d3 == [d2 EXCEPT !.Cores = OrDefault(flags.cores, minCores)]
        d4 == [d3 EXCEPT !.Ram = OrDefault(flags.ram, minRam)]
        d5 == [d4 EXCEPT !.Ssd = OrDefault(flags.ssd, minSsd)]
    IN  IF d1.Endpoint = "" THEN [d |-> d1, err |-> "EndpointRequired"]
        ELSE IF d2.AccessToken = "" THEN [d |-> d2, err |-> "AccessTokenRequired"]
        ELSE IF d3.Cores < minCores \/ d3.Cores > maxCores
             THEN [d |-> d3, err |-> "CoresRange"]
        ELSE IF d4.Ram < minRam \/ d4.Ram > maxRam
             THEN [d |-> d4, err |-> "RamRange"]
        ELSE IF d5.Ssd < minSsd \/ d5.Ssd > maxSsd \/ d5.Ssd % stepSsd # 0
             THEN [d |-> d5, err |-> "SsdRange"]
        ELSE [d |-> d5, err |-> "nil"]

\* ---- SetConfigFromFlags, called by the host: it issues no remote call
SetConfigFromFlags ==
    /\ pc = "idle"
    /\ \E flags \in Flags :
         /\ d' = ConfigFromFlags(d, flags).d
         /\ ret' = Result("SetConfigFromFlags", ConfigFromFlags(d, flags).err)
         /\ loc' = [caller |-> "SetConfigFromFlags", flags |-> flags]
    /\ log' = <<>>
    /\ UNCHANGED <<fws, vms, host, pc>>

Provider ==
    \/ ProviderFirewallActive
    \/ ProviderServerPoweredOn
    \/ ProviderFirewallRemoved
    \/ ProviderServerRemoved
    \/ HostPortOpens
    \/ HostAptIdle

Create ==
    \/ CreateFindAppliance
    \/ CreateFirewallPolicy
    \/ CreateServer
    \/ CreateWaitFirewall
    \/ CreateWaitServer
    \/ CreateGetIp
    \/ CreateGenerateSSHKey
    \/ WaitForTcpPortToBeOpen
    \/ ReadyGetSSHClient
    \/ ReadyAptCheck
    \/ CreateInstallSshKey

Remove ==
    \/ RemoveCall
    \/ RemoveFirewall
    \/ RemoveServer
    \/ RemoveWaitFirewall
    \/ RemoveWaitServer

Next == Create \/ Remove \/ Provider

Spec == Init /\ [][Next]_vars

\* ---- the same machine with progress: a called function runs on (each step it
\*      can take is taken), and the provider and the new server complete what
\*      they began; that the host calls Create or Remove is not required
Running == pc # "idle" /\ (Create \/ Remove)

Progress ==
    /\ WF_vars(Running)
    /\ WF_vars(ProviderFirewallActive)
    /\ WF_vars(ProviderServerPoweredOn)
    /\ WF_vars(ProviderFirewallRemoved)
    /\ WF_vars(ProviderServerRemoved)
    /\ WF_vars(HostPortOpens)
    /\ WF_vars(HostAptIdle)

SpecProgress == Init /\ [][Next]_vars /\ Progress

\* ---- the operations on a machine that exists: the record after a successful
\*      Create, or a record never created
InitLifecycle ==
    /\ \/ /\ d = [Configured EXCEPT !.VmId = 1, !.FirewallId = 1, !.IPAddress = "ipA"]
          /\ fws = [i \in Ids |-> IF i = 1 THEN "ACTIVE" ELSE "NONE"]
          /\ vms = [i \in Ids |-> IF i = 1
                                  THEN [NoServer EXCEPT !.state = "POWERED_ON",
                                                        !.ips = <<"ipA">>, !.fw = 1,
                                                        !.cores = minCores, !.ram = minRam,
                                                        !.ssd = minSsd]
                                  ELSE NoServer]
          /\ host = [portOpen |-> TRUE, aptBusy |-> FALSE]
       \/ /\ d = Configured
          /\ fws = [i \in Ids |-> "NONE"]
          /\ vms = [i \in Ids |-> NoServer]
          /\ host = [portOpen |-> FALSE, aptBusy |-> TRUE]
    /\ pc = "idle"
    /\ loc = NoLocals
    /\ ret = NoResult
    /\ log = <<>>

NextLifecycle ==
    \/ GetState
    \/ Start
    \/ Stop
    \/ Restart
    \/ Kill
    \/ ProviderReports
    \/ ProviderServerRemoved

SpecLifecycle == InitLifecycle /\ [][NextLifecycle]_vars

\* ---- configuration binding on the record NewDriver built
InitConfig ==
    /\ d = NewDriver
    /\ fws = [i \in Ids |-> "NONE"]
    /\ vms = [i \in Ids |-> NoServer]
    /\ host = [portOpen |-> FALSE, aptBusy |-> TRUE]
    /\ pc = "idle"
    /\ loc = NoLocals
    /\ ret = NoResult
    /\ log = <<>>

NextConfig == SetConfigFromFlags

SpecConfig == InitConfig /\ [][NextConfig]_vars

\* ---- configuration binding and Create on one record: the flags of a host that
\*      gives its credentials and leaves a sizing flag unset or sets it wrongly
SizingFlags ==
    [endpoint : {"ep"}, token : {"tok"},
     cores : {0, maxCores + 1},
     ram : {0},
     ssd : {0, minSsd + 1}]

SetConfigFromSizingFlags ==
    /\ pc = "idle"
    /\ \E flags \in SizingFlags :
         /\ d' = ConfigFromFlags(d, flags).d
         /\ ret' = Result("SetConfigFromFlags", ConfigFromFlags(d, flags).err)
         /\ loc' = [caller |-> "SetConfigFromFlags", flags |-> flags]
    /\ log' = <<>>
    /\ UNCHANGED <<fws, vms, host, pc>>

\* the cleanup Create runs: the body of Remove, entered from Create
CreateCleanup ==
    \/ RemoveFirewall
    \/ RemoveServer
    \/ RemoveWaitFirewall
    \/ RemoveWaitServer

NextSizing == SetConfigFromSizingFlags \/ Create \/ CreateCleanup \/ Provider

SpecSizing == Init /\ [][NextSizing]_vars

(***************************************************************************)
(* utils.go: the check of the apt cache                                    *)
(***************************************************************************)

\* largest remote timestamp explored
MaxTime == 32

\* the age, in seconds, below which the cache counts as up to date
AptWindow == 30

\* what a remote command can yield: the command failed, or it printed text that
\* is not an integer, or it printed an integer
CommandOutputs ==
    {[kind |-> "failed", value |-> 0], [kind |-> "text", value |-> 0]}
        \cup [kind : {"int"}, value : 0 .. MaxTime]

\* the value and the error of getIntValueFromSSHCommand: 0 with an error when the
\* command failed or its output does not parse
getIntValueFromSSHCommand(out) ==
    CASE out.kind = "failed" -> [value |-> 0, err |-> "ExecErr"]
      [] out.kind = "text" -> [value |-> 0, err |-> "ParseErr"]
      [] OTHER -> [value |-> out.value, err |-> "nil"]

isAptUpToDate_Stale(stat, date) ==
    LET lastRun == getIntValueFromSSHCommand(stat).value
        currentTime == getIntValueFromSSHCommand(date).value
        diff == currentTime - lastRun
    IN  diff > AptWindow

\* isAptUpToDate: both errors are only logged, the values of failed commands
\* enter the difference as 0
isAptUpToDate(stat, date) ==
    LET lastRun == getIntValueFromSSHCommand(stat).value
        currentTime == getIntValueFromSSHCommand(date).value
        diff == currentTime - lastRun
    IN  diff < AptWindow

\* ---- a call of isAptUpToDate on a session to the server
AptCheck ==
    /\ pc = "idle"
    /\ \E stat \in CommandOutputs, date \in CommandOutputs :
         /\ log' = <<EntryArg("isAptUpToDate", "stat",
                              getIntValueFromSSHCommand(stat).err = "nil", 0, stat),
                     EntryArg("isAptUpToDate", "date",
                              getIntValueFromSSHCommand(date).err = "nil", 0, date)>>
         /\ ret' = [op |-> "isAptUpToDate", err |-> "nil",
                    state |-> isAptUpToDate(stat, date)]
    /\ loc' = [NoLocals EXCEPT !.caller = "isAptUpToDate"]
    /\ UNCHANGED <<d, fws, vms, host, pc>>

InitApt == InitLifecycle /\ d.VmId # NewDriver.VmId

NextApt == AptCheck

SpecApt == InitApt /\ [][NextApt]_vars

(***************************************************************************)
(* utils.go: the probe of the TCP port, attempt by attempt                 *)
(***************************************************************************)

\* largest number of connection attempts explored in one probe
MaxDials == 8

\* the ip:port targets a probe is called with
Targets == {<<"ipA", 22>>, <<"ipB", 22>>, <<"ipA", 2222>>}

\* ---- WaitForTcpPortToBeOpen is called: target := ip:port
TcpProbeCall ==
    /\ pc = "idle"
    /\ \E target \in Targets : loc' = [caller |-> "WaitForTcpPortToBeOpen", target |-> target]
    /\ pc' = "probe_dial"
    /\ log' = <<>>
    /\ ret' = NoResult
    /\ UNCHANGED <<d, fws, vms, host>>

TcpProbeDial_Once ==
    /\ pc = "probe_dial"
    /\ \E ok \in BOOLEAN :
         /\ ok => host.portOpen
         /\ log' = Append(log, EntryArg("WaitForTcpPortToBeOpen", "DialTimeout", ok, 0,
                                        loc.target))
         /\ pc' = "idle"
         /\ ret' = Result("WaitForTcpPortToBeOpen", "nil")
    /\ UNCHANGED <<d, fws, vms, host, loc>>

\* ---- WaitForTcpPortToBeOpen: one net.DialTimeout; err == nil ends the loop and
\*      the function, any error leads to the sleep
TcpProbeDial ==
    /\ pc = "probe_dial"
    /\ \E ok \in BOOLEAN :
         /\ ok => host.portOpen
         /\ log' = Append(log, EntryArg("WaitForTcpPortToBeOpen", "DialTimeout", ok, 0,
                                        loc.target))
         /\ IF ok
            THEN pc' = "idle" /\ ret' = Result("WaitForTcpPortToBeOpen", "nil")
            ELSE /\ Calls("DialTimeout") + 1 < MaxDials
                 /\ pc' = "probe_sleep"
                 /\ ret' = ret
    /\ UNCHANGED <<d, fws, vms, host, loc>>

\* ---- WaitForTcpPortToBeOpen: time.Sleep of the loop body, then the next dial
TcpProbeSleep ==
    /\ pc = "probe_sleep"
    /\ log' = Append(log, Entry("WaitForTcpPortToBeOpen", "Sleep", TRUE, 0))
    /\ pc' = "probe_dial"
    /\ UNCHANGED <<d, fws, vms, host, loc, ret>>

\* ---- the probed server: its port starts or stops accepting connections
HostPortChanges ==
    /\ pc \in {"probe_dial", "probe_sleep"}
    /\ host' = [host EXCEPT !.portOpen = ~host.portOpen]
    /\ UNCHANGED <<d, fws, vms, pc, loc, ret, log>>

\* the record and the server at the call in WaitForServerReady: the server is
\* powered on and has its address, its SSH port is still closed
InitProbe ==
    /\ d = [Configured EXCEPT !.VmId = 1, !.FirewallId = 1, !.IPAddress = "ipA"]
    /\ fws = [i \in Ids |-> IF i = 1 THEN "ACTIVE" ELSE "NONE"]
    /\ vms = [i \in Ids |-> IF i = 1
                            THEN [NoServer EXCEPT !.state = "POWERED_ON",
                                                  !.ips = <<"ipA">>, !.fw = 1,
                                                  !.cores = minCores, !.ram = minRam,
                                                  !.ssd = minSsd]
                            ELSE NoServer]
    /\ host = [portOpen |-> FALSE, aptBusy |-> TRUE]
    /\ pc = "idle"
    /\ loc = NoLocals
    /\ ret = NoResult
    /\ log = <<>>

NextProbe ==
    \/ TcpProbeCall
    \/ TcpProbeDial
    \/ TcpProbeSleep
    \/ HostPortChanges

SpecProbe == InitProbe /\ [][NextProbe]_vars

(***************************************************************************)
(* The earlier variant of the driver: cleanUp, the cleanup of its Create.  *)
(* Its Remove has the same text as the Remove modelled above.             *)
(***************************************************************************)

\* ---- cleanUp is called by Create after a failed CreateServer or installSshKey;
\*      with an empty FirewallId it returns at once
CleanUpCall ==
    /\ pc = "idle"
    /\ log' = <<>>
    /\ loc' = [NoLocals EXCEPT !.caller = "cleanUp"]
    /\ IF d.FirewallId # NewDriver.FirewallId
       THEN pc' = "cleanup_firewall" /\ ret' = NoResult
       ELSE pc' = "idle" /\ ret' = Result("cleanUp", "nil")
    /\ UNCHANGED <<d, fws, vms, host>>

\* ---- cleanUp: GetFirewallPolicy with its error dropped, then firewall.Delete()
\*      with its results dropped; a nil firewall ends the process in a panic
CleanUpFirewall ==
    /\ pc = "cleanup_firewall"
    /\ \E outcome \in {"notfound", "deletefailed", "deleted"} :
         /\ outcome # "notfound" => FirewallExists(d.FirewallId)
         /\ log' = IF outcome = "notfound"
                   THEN Append(log, Entry("cleanUp", "GetFirewallPolicy", FALSE, d.FirewallId))
                   ELSE log \o <<Entry("cleanUp", "GetFirewallPolicy", TRUE, d.FirewallId),
                                 Entry("cleanUp", "FirewallPolicy.Delete",
                                       outcome = "deleted", d.FirewallId)>>
         /\ fws' = IF outcome = "deleted"
                   THEN [fws EXCEPT ![d.FirewallId] = "REMOVING"]
                   ELSE fws
         /\ IF outcome = "notfound"
            THEN /\ pc' = "panicked"
                 /\ ret' = Result("cleanUp", "panic")
                 /\ loc' = loc
            ELSE /\ pc' = "cleanup_wait"
                 /\ ret' = ret
                 /\ loc' = [loc EXCEPT !.firewall = d.FirewallId]
    /\ UNCHANGED <<d, vms, host>>

\* ---- cleanUp: firewall.WaitUntilDeleted() on the handle of the lookup, then
\*      cleanUp returns
CleanUpWait ==
    /\ pc = "cleanup_wait"
    /\ fws[loc.firewall] = "DELETED"
    /\ log' = Append(log, Entry("cleanUp", "FirewallPolicy.WaitUntilDeleted", TRUE,
                                loc.firewall))
    /\ pc' = "idle"
    /\ ret' = Result("cleanUp", "nil")
    /\ UNCHANGED <<d, fws, vms, host, loc>>

\* the record and the provider when cleanUp is called: installSshKey failed after
\* both resources were made, or CreateServer failed after the firewall policy was
InitCleanUp ==
    /\ \/ /\ d = [Configured EXCEPT !.VmId = 1, !.FirewallId = 1, !.IPAddress = "ipA"]
          /\ fws = [i \in Ids |-> IF i = 1 THEN "ACTIVE" ELSE "NONE"]
          /\ \E ips \in IpLists \ {<<>>} :
               vms = [i \in Ids |-> IF i = 1
                                    THEN [NoServer EXCEPT !.state = "POWERED_ON",
                                                          !.ips = ips, !.fw = 1,
                                                          !.cores = minCores,
                                                          !.ram = minRam, !.ssd = minSsd]
                                    ELSE NoServer]
       \/ /\ d = [Configured EXCEPT !.FirewallId = 1]
          /\ fws \in {[i \in Ids |-> IF i = 1 THEN s ELSE "NONE"] : s \in {"CONFIGURING", "ACTIVE"}}
          /\ vms = [i \in Ids |-> NoServer]
    /\ host = [portOpen |-> TRUE, aptBusy |-> FALSE]
    /\ pc = "idle"
    /\ loc = NoLocals
    /\ ret = NoResult
    /\ log = <<>>

NextCleanUp ==
    \/ CleanUpCall
    \/ CleanUpFirewall
    \/ CleanUpWait
    \/ Remove
    \/ ProviderFirewallActive
    \/ ProviderFirewallRemoved
    \/ ProviderServerRemoved

SpecCleanUp == InitCleanUp /\ [][NextCleanUp]_vars

(***************************************************************************)
(* PreCreateCheck, and the Create a host runs after it returned nil.  The   *)
(* provider also holds resources the record did not make: Twin carries the  *)
(* name this machine's resources get, Stranger the bare machine name.       *)
(***************************************************************************)

MachineName == "m"

\* the name Create gives its firewall policy and its server, and PreCreateCheck
\* looks for
ResourceName == "[Docker Machine] " \o MachineName

Twin == MaxIds + 1

Stranger == MaxIds + 2

\* the name of a resource at the provider
NameOf(id) == IF id = Stranger THEN MachineName ELSE ResourceName

\* what GetServers and GetFirewallPolicies list: every resource that exists
ListedServers == {i \in DOMAIN vms : vms[i].state \notin {"NONE", "DELETED"}}

ListedFirewalls == {i \in DOMAIN fws : fws[i] \in {"CONFIGURING", "ACTIVE", "REMOVING"}}

PreCreateCheck_ServersOnly ==
    /\ pc = "idle"
    /\ \E listed \in BOOLEAN :
         LET taken == \E i \in ListedServers : NameOf(i) = ResourceName IN
         /\ log' = <<Entry("PreCreateCheck", "GetServers", listed, 0)>>
         /\ ret' = Result("PreCreateCheck",
                          IF ~listed THEN "ListServersErr"
                          ELSE IF taken THEN "ServerNameTaken" ELSE "nil")
    /\ loc' = [NoLocals EXCEPT !.caller = "PreCreateCheck"]
    /\ UNCHANGED <<d, fws, vms, host, pc>>

\* ---- PreCreateCheck: list the servers and look for the name, then list the
\*      firewall policies and look for the name; the first failure returns
PreCreateCheck ==
    /\ pc = "idle"
    /\ \E serversListed \in BOOLEAN, firewallsListed \in BOOLEAN :
         LET serverTaken == \E i \in ListedServers : NameOf(i) = ResourceName
             firewallTaken == \E i \in ListedFirewalls : NameOf(i) = ResourceName
         IN  IF ~serversListed
             THEN /\ log' = <<Entry("PreCreateCheck", "GetServers", FALSE, 0)>>
                  /\ ret' = Result("PreCreateCheck", "ListServersErr")
             ELSE IF serverTaken
             THEN /\ log' = <<Entry("PreCreateCheck", "GetServers", TRUE, 0)>>
                  /\ ret' = Result("PreCreateCheck", "ServerNameTaken")
             ELSE /\ log' = <<Entry("PreCreateCheck", "GetServers", TRUE, 0),
                              Entry("PreCreateCheck", "GetFirewallPolicies",
                                    firewallsListed, 0)>>
                  /\ ret' = Result("PreCreateCheck",
                                   IF ~firewallsListed THEN "ListFirewallsErr"
                                   ELSE IF firewallTaken THEN "FirewallNameTaken"
                                   ELSE "nil")
    /\ loc' = [NoLocals EXCEPT !.caller = "PreCreateCheck"]
    /\ UNCHANGED <<d, fws, vms, host, pc>>

\* ---- the host: Create is called when PreCreateCheck has just returned nil, and
\*      then runs on
CheckedCreate ==
    \/ ret = Result("PreCreateCheck", "nil") /\ CreateFindAppliance
    \/ pc # "idle" /\ Create

\* a configured record that made nothing yet, and a provider that holds none,
\* some or all of the other resources
InitPreCreate ==
    /\ d = Configured
    /\ \E twin \in BOOLEAN, stranger \in BOOLEAN :
         fws = [i \in 1 .. Stranger |->
                  IF (i = Twin /\ twin) \/ (i = Stranger /\ stranger)
                  THEN "ACTIVE" ELSE "NONE"]
    /\ \E twin \in BOOLEAN, stranger \in BOOLEAN :
         vms = [i \in 1 .. Stranger |->
                  IF (i = Twin /\ twin) \/ (i = Stranger /\ stranger)
                  THEN [NoServer EXCEPT !.state = "POWERED_ON", !.ips = <<"ipB">>,
                                        !.fw = i, !.cores = minCores, !.ram = minRam,
                                        !.ssd = minSsd]
                  ELSE NoServer]
    /\ host = [portOpen |-> FALSE, aptBusy |-> TRUE]
    /\ pc = "idle"
    /\ loc = NoLocals
    /\ ret = NoResult
    /\ log = <<>>

NextPreCreate == PreCreateCheck \/ CheckedCreate \/ CreateCleanup \/ Provider

SpecPreCreate == InitPreCreate /\ [][NextPreCreate]_vars

(***************************************************************************)
(* The claims                                                              *)
(***************************************************************************)

\* Create has returned after its CreateServer request failed
ServerCreationFailed == ret.op = "Create" /\ loc.failed = "CreateServer"

\* C1, as stated: when the firewall policy was created and CreateServer failed,
\* Create issued exactly one delete-firewall call and no delete-server call, and
\* returned the error of CreateServer.
C1_AsStated ==
    ServerCreationFailed =>
        /\ Calls("FirewallPolicy.Delete") = 1
        /\ Calls("Server.Delete") = 0
        /\ ret.err = "ServerErr"

\* C1, amended: when the firewall policy was created and CreateServer failed,
\* Create returns the error of CreateServer, has looked up once the firewall
\* policy it just created and once the server the record names, and has issued
\* one delete for each lookup that succeeded and none for one that failed: no
\* delete-server call on a record whose VmId is empty.
C1_CleanupAfterServerFailure ==
    ServerCreationFailed =>
        /\ ret.err = "ServerErr"
        /\ Calls("GetFirewallPolicy") = 1
        /\ \A i \in At("GetFirewallPolicy") : log[i].id = d.FirewallId /\ d.FirewallId # 0
        /\ Calls("FirewallPolicy.Delete") = OkCalls("GetFirewallPolicy")
        /\ Calls("GetServer") = 1
        /\ Calls("Server.Delete") = OkCalls("GetServer")
        /\ (d.VmId = 0 => Calls("Server.Delete") = 0)

C1_Witness ==
    /\ ServerCreationFailed
    /\ d.VmId = 0
    /\ Calls("FirewallPolicy.Delete") = 1
    /\ Calls("Server.Delete") = 0

\* C2: whenever Create returns nil, VmId, FirewallId and IPAddress are non-empty,
\* the identifiers are those the create calls returned, and IPAddress is the first
\* address of the re-fetched server.
C2_SuccessfulCreateFillsRecord ==
    ret = Result("Create", "nil") =>
        /\ d.VmId # 0
        /\ d.FirewallId # 0
        /\ d.IPAddress # ""
        /\ \E i \in At("CreateFirewallPolicy") : log[i].ok /\ log[i].id = d.FirewallId
        /\ \E i \in At("CreateServer") : log[i].ok /\ log[i].id = d.VmId
        /\ loc.ips = vms[d.VmId].ips
        /\ d.IPAddress = loc.ips[1]

C2_Witness ==
    /\ ret = Result("Create", "nil")
    /\ Len(loc.ips) = 2
    /\ d.IPAddress = "ipB"

\* the sizing flags lie outside cores 1..16, RAM 1..128, SSD 20..500 in steps of 20
OutOfRange(flags) ==
    \/ flags.cores < minCores \/ flags.cores > maxCores
    \/ flags.ram < minRam \/ flags.ram > maxRam
    \/ flags.ssd < minSsd \/ flags.ssd > maxSsd \/ flags.ssd % stepSsd # 0

\* the same, a flag of 0 counting as its minimum
OutOfRangeUnlessUnset(flags) ==
    OutOfRange([flags EXCEPT !.cores = OrDefault(flags.cores, minCores),
                             !.ram = OrDefault(flags.ram, minRam),
                             !.ssd = OrDefault(flags.ssd, minSsd)])

\* C3, as stated: for every sizing input outside the ranges, 0 included,
\* SetConfigFromFlags returns an error and makes no remote call.
C3_AsStated ==
    (ret.op = "SetConfigFromFlags" /\ OutOfRange(loc.flags)) =>
        ret.err # "nil" /\ log = <<>>

\* C3, amended: for every sizing input that is not 0 and lies outside the ranges,
\* SetConfigFromFlags returns an error and makes no remote call; a sizing flag of
\* 0 is not rejected.
C3_OutOfRangeRejected ==
    (ret.op = "SetConfigFromFlags" /\ OutOfRangeUnlessUnset(loc.flags)) =>
        ret.err # "nil" /\ log = <<>>

C3_Witness ==
    /\ ret.op = "SetConfigFromFlags"
    /\ loc.flags.cores = maxCores
    /\ loc.flags.ram = maxRam
    /\ loc.flags.ssd = minSsd + 1
    /\ ret.err = "SsdRange"

\* C4: every failing return of Create after the firewall policy was created has
\* run Remove (a lookup of the firewall policy and of the server) and returns
\* the error of the step that failed.
C4_AsStated ==
    (/\ ret.op = "Create"
     /\ ret.err # "nil"
     /\ OkCalls("CreateFirewallPolicy") = 1) =>
        /\ Calls("GetFirewallPolicy") = 1
        /\ \E i \in At("GetServer") : log[i].by = "Remove"
        /\ ret.err = loc.err

\* C5: Remove on a record whose VmId and FirewallId are empty issues no delete
\* call, waits on nothing and returns nil.
C5_RemoveOnEmptyRecord ==
    (ret.op = "Remove" /\ d.VmId = 0 /\ d.FirewallId = 0) =>
        /\ ret.err = "nil"
        /\ Calls("FirewallPolicy.Delete") = 0
        /\ Calls("Server.Delete") = 0
        /\ Calls("FirewallPolicy.WaitUntilDeleted") = 0
        /\ Calls("Server.WaitUntilDeleted") = 0

C5_Witness ==
    /\ ret = Result("Remove", "nil")
    /\ d.VmId = 0
    /\ d.FirewallId = 0
    /\ Calls("GetFirewallPolicy") = 1
    /\ Calls("GetServer") = 1

\* GetState has returned the state of a fetched server
Fetched == ret.op = "GetState" /\ ret.err = "nil"

\* C6: after a successful fetch GetState maps POWERING_ON to Starting, POWERED_ON
\* to Running, POWERED_OFF to Stopped, POWERING_OFF to Stopping, DEPLOYING to
\* Error, and a status outside the vocabulary to None.
C6_StatusMapping ==
    Fetched =>
        /\ loc.status = "POWERING_ON" => ret.state = "Starting"
        /\ loc.status = "POWERED_ON" => ret.state = "Running"
        /\ loc.status = "POWERED_OFF" => ret.state = "Stopped"
        /\ loc.status = "POWERING_OFF" => ret.state = "Stopping"
        /\ loc.status = "DEPLOYING" => ret.state = "Error"
        /\ loc.status \notin Statuses => ret.state = "None"

C6_Witness ==
    /\ Fetched
    /\ loc.status = "UNKNOWN_STATUS"
    /\ ret.state = "None"

\* C7: for the statuses REBOOTING, REMOVING and CONFIGURING GetState returns None
\* and no error.
C7_EmptyCasesYieldNone ==
    (ret.op = "GetState" /\ loc.status \in {"REBOOTING", "REMOVING", "CONFIGURING"}) =>
        ret.state = "None" /\ ret.err = "nil"

C7_Witness ==
    /\ Fetched
    /\ loc.status = "REBOOTING"
    /\ ret.state = "None"

\* C8: a GetState whose fetch fails returns None together with the fetch error,
\* and leaves the record as it was.
C8_FetchFailureYieldsNone ==
    [][(ret'.op = "GetState" /\ ret'.err # "nil") =>
          /\ ret'.state = "None"
          /\ ret'.err = "GetServerErr"
          /\ log' = <<Entry("GetState", "GetServer", FALSE, d.VmId)>>
          /\ d' = d]_vars

C8_Witness ==
    /\ ret.op = "GetState"
    /\ ret.err = "GetServerErr"
    /\ ServerExists(d.VmId)

\* the calls of the SSH bootstrap
Bootstrap ==
    At("GenerateSSHKey") \cup At("DialTimeout") \cup At("getSSHClient")
        \cup At("executeCmd") \cup At("installSshKey")

\* the position of Create's re-fetch of the server for its address
IpRetrieval == {i \in At("GetServer") : log[i].by = "Create"}

\* C9: Create re-fetches the server for its address only after the firewall
\* policy was seen ACTIVE and a status poll read POWERED_ON; every poll before that
\* one read another status and no poll follows it; the bootstrap follows the
\* retrieval and never runs without it.
C9_PollThenAddressThenBootstrap ==
    /\ \A i \in IpRetrieval :
         /\ \E f \in At("FirewallPolicy.WaitForState") : f < i
         /\ \E j \in At("Server.WaitForState.poll") :
              /\ j < i
              /\ log[j].ok
              /\ \A k \in At("Server.WaitForState.poll") :
                   k <= j /\ (k < j => ~log[k].ok)
         /\ \A b \in Bootstrap : i < b
    /\ Bootstrap # {} => IpRetrieval # {}

C9_Witness ==
    /\ Calls("Server.WaitForState.poll") = 3
    /\ OkCalls("Server.WaitForState.poll") = 1
    /\ Calls("installSshKey") = 1

\* C10: from the state in which Create is about to request the server, on every
\* path including those that reach Remove, FirewallId is the identifier the
\* firewall-policy creation of this Create returned.
C10_FirewallIdStoredBeforeServerRequest ==
    \A i \in At("CreateFirewallPolicy") :
        log[i].ok => (log[i].id # 0 /\ d.FirewallId = log[i].id)

C10_Witness ==
    /\ pc = "remove_firewall"
    /\ loc.failed = "CreateServer"
    /\ \E i \in At("CreateFirewallPolicy") : log[i].ok /\ d.FirewallId = log[i].id

\* Create's re-fetch of the server failed or returned an empty address list
NoAddress == loc.caller = "Create" /\ loc.failed = "GetServer"

\* C11, as stated: when the re-fetch of the server fails or yields an empty
\* address list, Create ends by returning an error instead of crashing, leaves
\* IPAddress unset and makes no step of the SSH bootstrap.
C11_AsStated ==
    NoAddress =>
        /\ pc = "idle"
        /\ ret.op = "Create"
        /\ ret.err \notin {"nil", "panic"}
        /\ d.IPAddress = Configured.IPAddress
        /\ Bootstrap = {}

\* the body of Remove has returned, to the host or to Create
RemoveReturned ==
    \/ ret.op = "Remove"
    \/ ret.op = "Create" /\ loc.failed \in {"CreateServer", "installSshKey"}

\* Remove is past its two delete steps
RemovePastDeletes == pc \in {"remove_waitfirewall", "remove_waitserver"} \/ RemoveReturned

\* the positions of Remove's lookup of the server
RemoveServerLookups == {i \in At("GetServer") : log[i].by = "Remove"}

\* C12: the two deletions of Remove are independent: whatever the outcome of the
\* firewall lookup and delete, the server is looked up once and deleted when
\* found, and whatever the outcome for the server, the firewall policy was looked
\* up once and deleted when found; Remove returns nil whichever of them failed.
C12_DeletionsIndependent ==
    /\ RemovePastDeletes =>
         /\ Calls("GetFirewallPolicy") = 1
         /\ Calls("FirewallPolicy.Delete") = OkCalls("GetFirewallPolicy")
         /\ Cardinality(RemoveServerLookups) = 1
         /\ Calls("Server.Delete") = Cardinality({i \in RemoveServerLookups : log[i].ok})
    /\ ret.op = "Remove" => ret.err = "nil"

C12_Witness ==
    /\ ret = Result("Remove", "nil")
    /\ \E i \in At("FirewallPolicy.Delete") : ~log[i].ok
    /\ OkCalls("Server.Delete") = 1

\* C13, as stated: when Remove returns, every resource for which it issued a
\* delete is gone at the provider, and so a firewall policy and a server that
\* existed under the record's identifiers exist no more.
C13_AsStated ==
    RemoveReturned =>
        /\ \A i \in At("FirewallPolicy.Delete") : ~FirewallExists(log[i].id)
        /\ \A i \in At("Server.Delete") : ~ServerExists(log[i].id)
        /\ ~FirewallExists(d.FirewallId)
        /\ ~ServerExists(d.VmId)

\* C13, amended: when Remove returns, every resource whose delete the provider
\* accepted has been waited for and is gone at the provider; when both lookups
\* and both deletes succeeded, neither the firewall policy nor the server of the
\* record exists any more.
C13_AcceptedDeletesConfirmed ==
    RemoveReturned =>
        /\ \A i \in At("FirewallPolicy.Delete") :
              log[i].ok =>
                  /\ fws[log[i].id] = "DELETED"
                  /\ \E w \in At("FirewallPolicy.WaitUntilDeleted") :
                        w > i /\ log[w].id = log[i].id
        /\ \A i \in At("Server.Delete") :
              log[i].ok =>
                  /\ vms[log[i].id].state = "DELETED"
                  /\ \E w \in At("Server.WaitUntilDeleted") :
                        w > i /\ log[w].id = log[i].id
        /\ (OkCalls("FirewallPolicy.Delete") = 1 /\ OkCalls("Server.Delete") = 1) =>
              ~FirewallExists(d.FirewallId) /\ ~ServerExists(d.VmId)

C13_Witness ==
    /\ ret = Result("Remove", "nil")
    /\ OkCalls("FirewallPolicy.Delete") = 1
    /\ OkCalls("Server.Delete") = 1
    /\ Calls("FirewallPolicy.WaitUntilDeleted") = 1
    /\ Calls("Server.WaitUntilDeleted") = 1

\* C14, as stated: once the cleanup / removal path has run, directly as Remove
\* or inside a failing Create, the record's VmId and FirewallId are empty.
C14_AsStated ==
    RemoveReturned => d.VmId = NewDriver.VmId /\ d.FirewallId = NewDriver.FirewallId

LifecycleOps == {"Start", "Stop", "Restart", "Kill"}

\* the state-change request each power operation is to issue, and its force flag
RequestOf(op) ==
    CASE op = "Start" -> [call |-> "Server.Start", arg |-> ""]
      [] op = "Stop" -> [call |-> "Server.Shutdown", arg |-> "false"]
      [] op = "Restart" -> [call |-> "Server.Reboot", arg |-> "false"]
      [] op = "Kill" -> [call |-> "Server.Shutdown", arg |-> "true"]

\* C15: each of Start, Stop, Restart and Kill first fetches the server by the
\* stored VmId; when the fetch fails it returns an error and issues no request;
\* when it succeeds it issues exactly one request, Start, Shutdown(false),
\* Reboot(false) and Shutdown(true) respectively, on that server, and returns an
\* error exactly when that request failed.
C15_FetchThenOneRequest ==
    ret.op \in LifecycleOps =>
        /\ Len(log) >= 1
        /\ log[1] = Entry(ret.op, "GetServer", log[1].ok, d.VmId)
        /\ IF log[1].ok
           THEN /\ Len(log) = 2
                /\ log[2] = EntryArg(ret.op, RequestOf(ret.op).call, log[2].ok, d.VmId,
                                     RequestOf(ret.op).arg)
                /\ ret.err # "nil" <=> ~log[2].ok
           ELSE /\ Len(log) = 1
                /\ ret.err # "nil"

C15_Witness ==
    /\ ret = Result("Kill", "nil")
    /\ Len(log) = 2
    /\ log[2].call = "Server.Shutdown"
    /\ log[2].arg = "true"
    /\ log[2].ok

\* C16: a step of Start, Stop, Restart, Kill or GetState, successful or not,
\* leaves the record as it was: VmId, FirewallId, IPAddress, the sizing fields
\* and the credentials keep their values, and no firewall policy changes.
C16_RecordUntouched ==
    [][loc'.caller \in LifecycleOps \cup {"GetState"} => d' = d /\ fws' = fws]_vars

C16_Witness ==
    /\ ret = Result("Stop", "nil")
    /\ vms[d.VmId].state = "POWERING_OFF"
    /\ d = [Configured EXCEPT !.VmId = 1, !.FirewallId = 1, !.IPAddress = "ipA"]

\* C17, as stated: every attempt of installSshKey comes after a successful probe
\* of the SSH port and, after that, a package-manager check that reported idle;
\* when the readiness wait failed, installSshKey is not attempted.
C17_AsStated ==
    \A i \in At("installSshKey") :
        /\ \E p \in At("DialTimeout") :
              /\ log[p].ok
              /\ \E a \in At("executeCmd") : p < a /\ a < i /\ log[a].arg = "0"
        /\ \A c \in At("getSSHClient") : log[c].by = "WaitForServerReady" => log[c].ok

\* Create has returned after installSshKey failed
KeyInstallFailed == ret.op = "Create" /\ loc.failed = "installSshKey"

\* C18: when installSshKey fails after the firewall policy and the server were
\* created, Create returns the error of installSshKey, and before that it has
\* looked up, to delete them, the firewall policy and the server it created,
\* issued a delete on each one it found, and waited until each accepted delete
\* was confirmed by the provider.
C18_CleanupAfterKeyInstallFailure ==
    KeyInstallFailed =>
        /\ ret.err \in InstallErrors
        /\ ret.err = loc.err
        /\ \E k \in At("installSshKey") :
              /\ ~log[k].ok
              /\ \E c \in At("CreateFirewallPolicy"), f \in At("GetFirewallPolicy") :
                    log[c].ok /\ c < k /\ k < f /\ log[f].id = log[c].id
              /\ \E c \in At("CreateServer"), s \in RemoveServerLookups :
                    log[c].ok /\ c < k /\ k < s /\ log[s].id = log[c].id
        /\ \A f \in At("GetFirewallPolicy") :
              log[f].ok => \E x \in At("FirewallPolicy.Delete") :
                              x > f /\ log[x].id = log[f].id
        /\ \A s \in RemoveServerLookups :
              log[s].ok => \E x \in At("Server.Delete") : x > s /\ log[x].id = log[s].id
        /\ \A x \in At("FirewallPolicy.Delete") :
              log[x].ok => /\ fws[log[x].id] = "DELETED"
                           /\ Calls("FirewallPolicy.WaitUntilDeleted") = 1
        /\ \A x \in At("Server.Delete") :
              log[x].ok => /\ vms[log[x].id].state = "DELETED"
                           /\ Calls("Server.WaitUntilDeleted") = 1

C18_Witness ==
    /\ KeyInstallFailed
    /\ ret.err = "InstallCmdErr"
    /\ OkCalls("FirewallPolicy.Delete") = 1
    /\ OkCalls("Server.Delete") = 1
    /\ ~FirewallExists(d.FirewallId)
    /\ ~ServerExists(d.VmId)

\* C19, as stated: the cleanup deletes in reverse creation order: when both
\* deletes are issued, the delete of the server comes before the delete of the
\* firewall policy.
C19_AsStated ==
    \A x \in At("FirewallPolicy.Delete"), y \in At("Server.Delete") : y < x

\* C19, amended: the cleanup deletes in creation order: the firewall policy is
\* looked up (and deleted when found) before the server is looked up; when both
\* deletes are issued the delete of the firewall policy comes first, and the
\* waits for the two deletions come after both deletes.
C19_FirewallDeletedFirst ==
    /\ \A f \in At("GetFirewallPolicy"), s \in RemoveServerLookups : f < s
    /\ \A x \in At("FirewallPolicy.Delete"), y \in At("Server.Delete") : x < y
    /\ \A w \in At("FirewallPolicy.WaitUntilDeleted") \cup At("Server.WaitUntilDeleted") :
          \A x \in RemoveServerLookups \cup At("Server.Delete") : x < w

C19_Witness ==
    /\ RemoveReturned
    /\ Calls("FirewallPolicy.Delete") = 1
    /\ Calls("Server.Delete") = 1
    /\ Calls("FirewallPolicy.WaitUntilDeleted") = 1
    /\ Calls("Server.WaitUntilDeleted") = 1

\* isAptUpToDate has returned; the outputs of its two commands
AptChecked == ret.op = "isAptUpToDate"

\* C20, as stated: isAptUpToDate reports true exactly when both commands
\* succeeded and the cache directory's modification time is more than 30
\* seconds older than the current remote time.
C20_AsStated ==
    AptChecked =>
        (ret.state <=> /\ log[1].ok
                       /\ log[2].ok
                       /\ log[2].arg.value - log[1].arg.value > AptWindow)

\* C20, amended: when both commands succeed isAptUpToDate reports true exactly
\* when the cache directory was modified less than 30 seconds before the current
\* remote time; when the date command fails it reports true; when only the stat
\* command fails it reports true exactly when the current time is below 30.
C20_TrueWhenRecentlyModified ==
    AptChecked =>
        /\ (log[1].ok /\ log[2].ok) =>
              (ret.state <=> log[2].arg.value - log[1].arg.value < AptWindow)
        /\ ~log[2].ok => ret.state
        /\ (~log[1].ok /\ log[2].ok) => (ret.state <=> log[2].arg.value < AptWindow)

C20_Witness ==
    /\ AptChecked
    /\ log[1].ok
    /\ log[2].ok
    /\ log[2].arg.value - log[1].arg.value = AptWindow + 1
    /\ ~ret.state

\* WaitForTcpPortToBeOpen has returned
ProbeReturned == ret.op = "WaitForTcpPortToBeOpen"

\* a probe is running or has returned
Probing == loc.caller = "WaitForTcpPortToBeOpen"

\* C21: WaitForTcpPortToBeOpen returns only after a connection attempt succeeded,
\* and that attempt is its first successful and its last one; every failed attempt
\* is followed by a sleep and the sleep by a new attempt on the same target, and
\* after a failed attempt the function has not returned, however many attempts
\* failed before.
C21_ProbeRetriesUntilOpen ==
    Probing =>
        /\ \A i \in DOMAIN log :
              /\ log[i].call \in {"DialTimeout", "Sleep"}
              /\ log[i].call = "DialTimeout" => log[i].arg = loc.target
              /\ (log[i].call = "DialTimeout" /\ ~log[i].ok) =>
                    /\ i < Len(log) => log[i + 1].call = "Sleep"
                    /\ i = Len(log) => ~ProbeReturned /\ pc = "probe_sleep"
              /\ log[i].call = "Sleep" =>
                    /\ i < Len(log) => log[i + 1].call = "DialTimeout"
                    /\ i = Len(log) => pc = "probe_dial"
              /\ (log[i].call = "DialTimeout" /\ log[i].ok) => i = Len(log) /\ ProbeReturned
        /\ ProbeReturned => log # <<>> /\ log[Len(log)].call = "DialTimeout" /\ log[Len(log)].ok

C21_Witness ==
    /\ ProbeReturned
    /\ Calls("DialTimeout") = 3
    /\ Calls("Sleep") = 2
    /\ OkCalls("DialTimeout") = 1

\* C22, as stated: whenever IPAddress is non-empty, VmId is non-empty and the
\* server VmId names was seen POWERED_ON before the address was stored; in
\* particular, when the running Create made that server, one of its status polls
\* has read POWERED_ON.
C22_AsStated ==
    d.IPAddress # NewDriver.IPAddress =>
        /\ d.VmId # NewDriver.VmId
        /\ \A c \in At("CreateServer") :
              (log[c].ok /\ log[c].id = d.VmId) =>
                  \E p \in At("Server.WaitForState.poll") :
                      p > c /\ log[p].ok /\ log[p].id = d.VmId

\* C23, as stated (its blocking half): Create returns only when each of the four
\* conditions it polls for has held: a Create that returned nil saw the firewall
\* policy ACTIVE and the server POWERED_ON, the SSH port of its server is open
\* and the package manager of its server has become idle.
C23_AsStated ==
    (ret.op = "Create" /\ ret.err = "nil") =>
        /\ OkCalls("FirewallPolicy.WaitForState") = 1
        /\ OkCalls("Server.WaitForState.poll") = 1
        /\ host.portOpen
        /\ ~host.aptBusy

\* cleanUp / Remove of the earlier variant has returned
CleanUpReturned == ret.op = "cleanUp" /\ ret.err = "nil"

\* C24, as stated: in the earlier variant cleanUp makes the remote deletions
\* Remove makes: for a record with a FirewallId and a VmId whose resources exist,
\* when cleanUp has returned it has issued a delete for the server as well as for
\* the firewall policy, and neither resource exists any more.
C24_AsStated ==
    (CleanUpReturned /\ d.FirewallId # NewDriver.FirewallId /\ d.VmId # NewDriver.VmId) =>
        /\ Calls("FirewallPolicy.Delete") = 1
        /\ Calls("Server.Delete") = 1
        /\ ~FirewallExists(d.FirewallId)
        /\ ~ServerExists(d.VmId)

\* the calls of Create come in the order image resolution, firewall-policy
\* creation, server creation, each one only after the one before succeeded, and a
\* created server carries the firewall policy made just before it
CreateCallOrder ==
    /\ \A i \in At("ServerApplianceFindNewest") : i = 1
    /\ \A i \in At("CreateFirewallPolicy") :
          i = 2 /\ log[1].call = "ServerApplianceFindNewest" /\ log[1].ok
    /\ \A i \in At("CreateServer") :
          /\ i = 3
          /\ log[2].call = "CreateFirewallPolicy"
          /\ log[2].ok
          /\ log[i].ok => vms[log[i].id].fw = log[2].id
    /\ (ret.op = "Create" /\ ret.err = "ImageErr") =>
          log = <<Entry("Create", "ServerApplianceFindNewest", FALSE, 0)>>
    /\ (ret.op = "Create" /\ ret.err = "FirewallErr") =>
          log = <<Entry("Create", "ServerApplianceFindNewest", TRUE, 0),
                  Entry("Create", "CreateFirewallPolicy", FALSE, 0)>>

\* the steps of Create up to a failed image resolution or firewall-policy creation
EarlyCreateStep ==
    /\ loc'.caller = "Create"
    /\ log' # log
    /\ pc \in {"idle", "create_firewall"}
    /\ pc' = "idle" \/ (pc = "idle" /\ pc' = "create_firewall")

\* C25: Create calls image resolution, firewall-policy creation and server
\* creation in this order; a failed image resolution is followed by no other call
\* and a failed firewall-policy creation by no server creation; in both cases
\* Create returns that error, runs no cleanup, and leaves the record and the
\* provider's resources as they were; every server created carries the identifier
\* of the firewall policy created just before.
C25_FixedOrderEarlyExits ==
    /\ []CreateCallOrder
    /\ [][EarlyCreateStep => d' = d /\ fws' = fws /\ vms' = vms]_vars

C25_Witness ==
    /\ ret = Result("Create", "FirewallErr")
    /\ d.IPAddress # NewDriver.IPAddress
    /\ Calls("CreateServer") = 0
    /\ Calls("GetFirewallPolicy") = 0

\* C26, as stated: whatever SetConfigFromFlags and Create calls were made on the
\* record, every server the provider was asked to create has a core count in
\* 1..16, a RAM size in 1..128 and an SSD size in 20..500 that is a multiple of 20.
C26_AsStated ==
    \A id \in Ids :
        vms[id].state # "NONE" =>
            /\ vms[id].cores >= minCores /\ vms[id].cores <= maxCores
            /\ vms[id].ram >= minRam /\ vms[id].ram <= maxRam
            /\ vms[id].ssd >= minSsd /\ vms[id].ssd <= maxSsd
            /\ vms[id].ssd % stepSsd = 0

\* Remove has returned to the host, and the firewall policy and the server the
\* record names were already gone when it was called: both are removed and this
\* Remove had no delete accepted, so an earlier Remove deleted them
SecondRemoveReturned ==
    /\ ret.op = "Remove"
    /\ d.FirewallId # NewDriver.FirewallId
    /\ d.VmId # NewDriver.VmId
    /\ fws[d.FirewallId] = "DELETED"
    /\ vms[d.VmId].state = "DELETED"
    /\ OkCalls("FirewallPolicy.Delete") = 0
    /\ OkCalls("Server.Delete") = 0

\* C27: a Remove called after both resources were deleted finds neither of them,
\* issues no delete, waits on nothing and returns nil; and no step of a Remove
\* changes the record.
C27_SecondRemoveFindsNothing ==
    /\ [](SecondRemoveReturned =>
            /\ log = <<Entry("Remove", "GetFirewallPolicy", FALSE, d.FirewallId),
                       Entry("Remove", "GetServer", FALSE, d.VmId)>>
            /\ ret.err = "nil")
    /\ [][(loc'.caller = "Remove" /\ (log' # log \/ ret' # ret)) => d' = d]_vars

C27_Witness ==
    /\ SecondRemoveReturned
    /\ Len(log) = 2
    /\ d.IPAddress # NewDriver.IPAddress

\* the process checks of WaitForServerReady that reported no package manager
IdleChecks == {a \in At("executeCmd") : log[a].arg = "0"}

\* C28: WaitForServerReady returns nil only after a process check whose output
\* contained "0", and that check is its last one; after a check that reported a
\* running process, or that failed, it runs the check again and has not returned;
\* when getSSHClient fails it returns without having run any check.
C28_ReadyOnlyWhenIdle ==
    /\ \A c \in At("getSSHClient") :
          log[c].by = "WaitForServerReady" =>
              /\ \E p \in At("DialTimeout") : p < c /\ log[p].ok
              /\ ~log[c].ok => Calls("executeCmd") = 0 /\ pc # "ready_apt"
              /\ (log[c].ok /\ pc # "ready_apt") => IdleChecks # {}
    /\ \A a \in At("executeCmd") :
          /\ \E c \in At("getSSHClient") : c < a /\ log[c].ok
          /\ log[a].arg # "0" =>
                /\ a < Len(log) => log[a + 1].call = "executeCmd"
                /\ a = Len(log) => pc = "ready_apt"
          /\ log[a].arg = "0" =>
                /\ pc # "ready_apt"
                /\ \A b \in At("executeCmd") : b <= a
    /\ pc = "ready_apt" => IdleChecks = {}

C28_Witness ==
    /\ Calls("executeCmd") = 3
    /\ log[Len(log)].call = "executeCmd"
    /\ IdleChecks = {Len(log)}
    /\ \E a \in At("executeCmd") : ~log[a].ok
    /\ \E a \in At("executeCmd") : log[a].arg = "1"
    /\ pc = "create_install"

\* C29, as stated: between the calls of Create and Remove on the record, every
\* firewall policy and every server that exists at the provider (each was created
\* through this record) is the one the record names in FirewallId or VmId.
C29_AsStated ==
    pc = "idle" =>
        \A id \in Ids :
            /\ FirewallExists(id) => id = d.FirewallId
            /\ ServerExists(id) => id = d.VmId

\* SetConfigFromFlags has returned nil
ConfigAccepted == ret = Result("SetConfigFromFlags", "nil")

\* C30: whenever SetConfigFromFlags returns nil the record has a non-empty
\* Endpoint and AccessToken, Cores in 1..16, Ram in 1..128 and Ssd in 20..500 and
\* a multiple of 20; a sizing flag given as 0 is stored as its minimum (1 core,
\* 1 GB, 20 GB) and is never the reason of a range error.
C30_AcceptedRecordInRange ==
    /\ ConfigAccepted =>
         /\ d.Endpoint # "" /\ d.AccessToken # ""
         /\ d.Cores >= minCores /\ d.Cores <= maxCores
         /\ d.Ram >= minRam /\ d.Ram <= maxRam
         /\ d.Ssd >= minSsd /\ d.Ssd <= maxSsd /\ d.Ssd % stepSsd = 0
         /\ loc.flags.cores = 0 => d.Cores = minCores
         /\ loc.flags.ram = 0 => d.Ram = minRam
         /\ loc.flags.ssd = 0 => d.Ssd = minSsd
    /\ ret = Result("SetConfigFromFlags", "CoresRange") => loc.flags.cores # 0
    /\ ret = Result("SetConfigFromFlags", "RamRange") => loc.flags.ram # 0
    /\ ret = Result("SetConfigFromFlags", "SsdRange") => loc.flags.ssd # 0

C30_Witness ==
    /\ ConfigAccepted
    /\ loc.flags.cores = 0
    /\ loc.flags.ram = maxRam
    /\ loc.flags.ssd = 0
    /\ d.Cores = minCores
    /\ d.Ram = maxRam
    /\ d.Ssd = minSsd

\* the termination half of C23: with the progress of SpecProgress a running
\* Create ends, by a return or by the panic of its address read
CreateEnds ==
    (loc.caller = "Create" /\ pc # "idle") ~> (pc \in {"idle", "panicked"})

\* the resources at the provider that carry this machine's name
NamedServers == {i \in ListedServers : NameOf(i) = ResourceName}

NamedFirewalls == {i \in ListedFirewalls : NameOf(i) = ResourceName}

\* a step in which PreCreateCheck returns
PreCreateCheckReturns ==
    /\ pc = "idle"
    /\ ret'.op = "PreCreateCheck"
    /\ <<log, ret, loc>>' # <<log, ret, loc>>

\* C31: PreCreateCheck returns an error exactly when a listing failed or a
\* server or a firewall policy with this machine's resource name is listed, and
\* nil otherwise; it changes neither the provider's resources nor the record; and
\* with Create called only after PreCreateCheck returned nil, the provider never
\* holds two servers or two firewall policies with this machine's resource name.
C31_CheckKeepsNamesUnique ==
    /\ [][PreCreateCheckReturns =>
            /\ ret'.err # "nil" <=>
                 \/ \E i \in DOMAIN log' : ~log'[i].ok
                 \/ NamedServers # {}
                 \/ NamedFirewalls # {}
            /\ \A i \in DOMAIN log' :
                 log'[i].call \in {"GetServers", "GetFirewallPolicies"}
            /\ UNCHANGED <<d, fws, vms>>]_vars
    /\ [](Cardinality(NamedServers) <= 1 /\ Cardinality(NamedFirewalls) <= 1)

\* Create returned nil after a check that passed with other resources listed:
\* the machine's server and firewall policy are the only ones with its name
C31_Witness ==
    /\ ret = Result("Create", "nil")
    /\ Stranger \in ListedServers
    /\ Stranger \in ListedFirewalls
    /\ Cardinality(NamedServers) = 1
    /\ Cardinality(NamedFirewalls) = 1
    /\ NamedServers \subseteq Ids
====
